---- MODULE Spec2Model ----
(***************************************************************************)
(* asyncScriptLoader: a state-machine model of the script loader.          *)
(*                                                                         *)
(* Two versions of the loader exist in the repository: src/src/index.ts    *)
(* (environment check, shared validateInputs, scheme allow-list, empty-key *)
(* rejection) and src/unnamed/part_000 (inline validation, neither check). *)
(* The variable impl says which version the page has loaded.               *)
(*                                                                         *)
(* A JavaScript string is a sequence of UTF-16 code units; a code unit is  *)
(* a one-character TLA+ string ("LS" stands for a lone surrogate such as   *)
(* \uD800, "U+E9" for the code unit of e-acute).  The fixed texts of error *)
(* messages are kept as single elements of the message sequence.           *)
(***************************************************************************)
EXTENDS Integers, Sequences, FiniteSets, TLC

\* -------------------------------------------------------------------------
\* JavaScript values
\* -------------------------------------------------------------------------

JSString(s) == [t |-> "string", s |-> s, o |-> <<>>]
JSNumber == [t |-> "number", s |-> <<>>, o |-> <<>>]
JSNull == [t |-> "null", s |-> <<>>, o |-> <<>>]
JSUndefined == [t |-> "undefined", s |-> <<>>, o |-> <<>>]
JSArray == [t |-> "array", s |-> <<>>, o |-> <<>>]
\* A plain object: its own enumerable string keys in Object.keys order.
JSObject(entries) == [t |-> "object", s |-> <<>>, o |-> entries]
Entry(k, v) == [key |-> k, value |-> v]

\* typeof v
TypeOf(v) ==
  CASE v.t = "string" -> "string"
    [] v.t = "number" -> "number"
    [] v.t = "undefined" -> "undefined"
    [] OTHER -> "object"

\* Array.isArray(v)
IsArray(v) == v.t = "array"

\* -------------------------------------------------------------------------
\* Strings
\* -------------------------------------------------------------------------

WhiteSpace == {" ", "\t", "\n"}

RECURSIVE TrimStart(_)
TrimStart(s) ==
  IF s # <<>> /\ Head(s) \in WhiteSpace THEN TrimStart(Tail(s)) ELSE s

RECURSIVE TrimEnd(_)
TrimEnd(s) ==
  IF s # <<>> /\ s[Len(s)] \in WhiteSpace
  THEN TrimEnd(SubSeq(s, 1, Len(s) - 1))
  ELSE s

\* String.prototype.trim
Trim(s) == TrimEnd(TrimStart(s))

\* String.prototype.startsWith
StartsWith(s, p) == Len(s) >= Len(p) /\ SubSeq(s, 1, Len(p)) = p

\* String.prototype.includes, for a one-code-unit needle
Includes(s, c) == \E i \in 1..Len(s) : s[i] = c

\* The least index of s whose code unit is in S (member = TRUE) or is not in
\* S (member = FALSE), Len(s) + 1 when there is none.
FirstIndex(s, S, member) ==
  IF \E i \in 1..Len(s) : (s[i] \in S) = member
  THEN CHOOSE i \in 1..Len(s) :
         /\ (s[i] \in S) = member
         /\ \A j \in 1..(i - 1) : (s[j] \in S) # member
  ELSE Len(s) + 1

\* -------------------------------------------------------------------------
\* new URL(input, base): the WHATWG basic URL parser, as far as it decides
\* success and the scheme.  Inputs are lower-case and carry no credentials
\* and no port.
\* -------------------------------------------------------------------------

Alpha ==
  {"a", "b", "c", "d", "e", "f", "g", "h", "i", "j", "k", "l", "m",
   "n", "o", "p", "q", "r", "s", "t", "u", "v", "w", "x", "y", "z"}
Digit == {"0", "1", "2", "3", "4", "5", "6", "7", "8", "9"}
SchemeChar == Alpha \cup Digit \cup {"+", "-", "."}
SpecialSchemes ==
  {<<"h", "t", "t", "p">>, <<"h", "t", "t", "p", "s">>, <<"f", "t", "p">>,
   <<"w", "s">>, <<"w", "s", "s">>, <<"f", "i", "l", "e">>}
FileScheme == <<"f", "i", "l", "e">>
ForbiddenHostChar == {" ", "#", "/", "<", ">", "?", "[", "\\", "]", "^", "|", "%", "LS"}

\* The parser drops every tab and newline of its input.
RECURSIVE RemoveTabNewline(_)
RemoveTabNewline(s) ==
  IF s = <<>> THEN <<>>
  ELSE IF Head(s) \in {"\t", "\n"} THEN RemoveTabNewline(Tail(s))
  ELSE <<Head(s)>> \o RemoveTabNewline(Tail(s))

\* The scheme of an input: the letters before the first ":" when the input
\* starts with a letter and only scheme characters precede the ":".
HasScheme(s) ==
  /\ s # <<>>
  /\ Head(s) \in Alpha
  /\ LET k == FirstIndex(s, SchemeChar, FALSE)
     IN k <= Len(s) /\ s[k] = ":"
SchemeOf(s) == SubSeq(s, 1, FirstIndex(s, SchemeChar, FALSE) - 1)
AfterScheme(s) ==
  SubSeq(s, FirstIndex(s, SchemeChar, FALSE) + 1, Len(s))

RECURSIVE SkipSlashes(_)
SkipSlashes(s) ==
  IF s # <<>> /\ Head(s) \in {"/", "\\"} THEN SkipSlashes(Tail(s)) ELSE s

\* The host of an authority: up to the first "/", "\", "?" or "#".
HostOf(s) == SubSeq(s, 1, FirstIndex(s, {"/", "\\", "?", "#"}, TRUE) - 1)
ValidHost(h) == h # <<>> /\ \A i \in 1..Len(h) : h[i] \notin ForbiddenHostChar

URLFailure == [ok |-> FALSE, protocol |-> <<>>]
URLRecord(scheme) == [ok |-> TRUE, protocol |-> scheme \o <<":">>]

\* Parsing without a base.
ParseAbsolute(raw) ==
  LET s == RemoveTabNewline(Trim(raw))
  IN IF ~HasScheme(s) THEN URLFailure
     ELSE LET scheme == SchemeOf(s)
              rest == AfterScheme(s)
          IN IF scheme = FileScheme THEN URLRecord(scheme)
             ELSE IF scheme \in SpecialSchemes
             THEN IF ValidHost(HostOf(SkipSlashes(rest)))
                  THEN URLRecord(scheme) ELSE URLFailure
             ELSE URLRecord(scheme)

NoBase == <<"<no base>">>

\* new URL(input, base); base = NoBase for the one-argument form.  The base
\* is parsed first, and its failure fails the whole parse.
ParseURL(raw, base) ==
  IF base = NoBase THEN ParseAbsolute(raw)
  ELSE LET b == ParseAbsolute(base)
           s == RemoveTabNewline(Trim(raw))
       IN IF ~b.ok THEN URLFailure
          ELSE IF ~HasScheme(s)
          THEN \* relative reference: the base's scheme; "//host" names a host
               IF /\ Len(s) >= 2
                  /\ s[1] \in {"/", "\\"} /\ s[2] \in {"/", "\\"}
                  /\ b.protocol \in {sch \o <<":">> : sch \in SpecialSchemes \ {FileScheme}}
                  /\ ~ValidHost(HostOf(SkipSlashes(s)))
               THEN URLFailure
               ELSE [ok |-> TRUE, protocol |-> b.protocol]
          ELSE LET scheme == SchemeOf(s)
                   rest == AfterScheme(s)
               IN IF /\ scheme \in SpecialSchemes \ {FileScheme}
                     /\ scheme \o <<":">> = b.protocol
                     /\ ~(Len(rest) >= 2 /\ rest[1] = "/" /\ rest[2] = "/")
                  THEN \* "https:path" against an https base is relative
                       URLRecord(scheme)
                  ELSE ParseAbsolute(raw)

\* -------------------------------------------------------------------------
\* encodeURIComponent
\* -------------------------------------------------------------------------

\* Code units encodeURIComponent leaves as they are.
Unreserved == Alpha \cup Digit \cup {"-", "_", ".", "!", "~", "*", "'", "(", ")"}

\* The UTF-8 percent-escape of every other code unit of the model's alphabet.
Escape(c) ==
  CASE c = " " -> <<"%", "2", "0">>
    [] c = "\t" -> <<"%", "0", "9">>
    [] c = "\n" -> <<"%", "0", "A">>
    [] c = "#" -> <<"%", "2", "3">>
    [] c = "%" -> <<"%", "2", "5">>
    [] c = "&" -> <<"%", "2", "6">>
    [] c = "+" -> <<"%", "2", "B">>
    [] c = "/" -> <<"%", "2", "F">>
    [] c = ":" -> <<"%", "3", "A">>
    [] c = "=" -> <<"%", "3", "D">>
    [] c = "?" -> <<"%", "3", "F">>
    [] c = "\\" -> <<"%", "5", "C">>
    [] c = "U+E9" -> <<"%", "C", "3", "%", "A", "9">>

\* A lone surrogate has no UTF-8 encoding: encodeURIComponent throws URIError.
LoneSurrogate == "LS"

\* The escaping of encodeURI, which leaves the reserved characters
\* ; / ? : @ & = + $ , # as they are.
RECURSIVE EncodeUnitsLikeEncodeURI(_)
EncodeUnitsLikeEncodeURI(s) ==
  IF s = <<>> THEN <<>>
  ELSE (IF Head(s) \in Unreserved
                         \cup {";", "/", "?", ":", "@", "&", "=", "+", "$", ",", "#"}
        THEN <<Head(s)>> ELSE Escape(Head(s)))
       \o EncodeUnitsLikeEncodeURI(Tail(s))

RECURSIVE EncodeUnits(_)
EncodeUnits(s) ==
  IF s = <<>> THEN <<>>
  ELSE (IF Head(s) \in Unreserved THEN <<Head(s)>> ELSE Escape(Head(s)))
       \o EncodeUnits(Tail(s))

\* encodeURIComponent(s): [ok, s]; ok = FALSE stands for the URIError thrown.
encodeURIComponent(s) ==
  IF Includes(s, LoneSurrogate)
  THEN [ok |-> FALSE, s |-> <<>>]
  ELSE [ok |-> TRUE, s |-> EncodeUnits(s)]

\* -------------------------------------------------------------------------
\* Errors
\* -------------------------------------------------------------------------

Err(name, message) == [name |-> name, message |-> message]
NoError == [name |-> "none", message |-> <<>>]

timeoutDuration == 2000

EnvironmentErr == Err("Error", <<"asyncScriptLoader requires a browser environment">>)
NoHeadErr == Err("Error", <<"No <head> element found in document">>)
LoadErr(url) == Err("Error", <<"Failed to load ">> \o url \o <<".">>)
TimeoutErr(url) ==
  Err("Error",
      <<"Script loading timed out after ", ToString(timeoutDuration), "ms: ">> \o url)
\* What the engine throws for a reference to the undeclared global document.
DocumentReferenceErr == Err("ReferenceError", <<"document is not defined">>)
URIErr == Err("URIError", <<"URI malformed">>)

\* -------------------------------------------------------------------------
\* The page
\* -------------------------------------------------------------------------

VARIABLES
  impl,        \* "index" (src/src/index.ts) or "part000" (src/unnamed/part_000)
  hasWindow,   \* typeof window !== 'undefined' (and document exists)
  hasHead,     \* document.getElementsByTagName('head')[0] is an element
  origin,      \* window.location.origin
  calls        \* the invocations of asyncScriptLoader
vars == <<impl, hasWindow, hasHead, origin, calls>>

HttpsOrigin == <<"h", "t", "t", "p", "s", ":", "/", "/", "h">>
\* The origin of a page served under a custom scheme.
AppOrigin == <<"a", "p", "p", ":", "/", "/", "h">>
\* The serialization of an opaque origin (a file: or data: page, a sandbox).
OpaqueOrigin == <<"n", "u", "l", "l">>
Origins == {HttpsOrigin, AppOrigin, OpaqueOrigin}

\* -------------------------------------------------------------------------
\* Validation
\* -------------------------------------------------------------------------

Valid == [valid |-> TRUE, error |-> NoError]
Invalid(e) == [valid |-> FALSE, error |-> e]

\* FirstBadEntry without the check of the keys.
FirstBadEntryValuesOnly(o, checkKeys) ==
  LET bad(i) == TypeOf(o[i].value) # "string"
  IN IF \E i \in 1..Len(o) : bad(i)
     THEN CHOOSE i \in 1..Len(o) : bad(i) /\ \A j \in 1..(i - 1) : ~bad(j)
     ELSE 0

\* The first index of the entries at which the loop of validateInputs
\* returns, 0 when it runs to the end.
FirstBadEntry(o, checkKeys) ==
  LET bad(i) == \/ checkKeys /\ Trim(o[i].key) = <<>>
                \/ TypeOf(o[i].value) # "string"
  IN IF \E i \in 1..Len(o) : bad(i)
     THEN CHOOSE i \in 1..Len(o) : bad(i) /\ \A j \in 1..(i - 1) : ~bad(j)
     ELSE 0

\* The protocols validateInputs lets through.
protocolAllowed(protocol) ==
  protocol \in {<<"h", "t", "t", "p", ":">>, <<"h", "t", "t", "p", "s", ":">>}

\* validateInputs with one message for every queryParamsObject that is not a
\* plain object (null, undefined, an array, a primitive).
validateInputsOneObjectMessage(baseUrl, queryParamsObject) ==
  IF TypeOf(baseUrl) # "string"
  THEN Invalid(Err("TypeError", <<"baseUrl must be a string">>))
  ELSE IF Trim(baseUrl.s) = <<>>
  THEN Invalid(Err("Error", <<"baseUrl cannot be empty">>))
  ELSE IF ~ParseURL(baseUrl.s, origin).ok
  THEN Invalid(Err("Error", <<"baseUrl must be a valid URL">>))
  ELSE IF ~protocolAllowed(ParseURL(baseUrl.s, origin).protocol)
  THEN Invalid(Err("Error", <<"baseUrl must use http: or https: protocol">>))
  ELSE IF \/ queryParamsObject.t \in {"null", "undefined"}
          \/ TypeOf(queryParamsObject) # "object"
          \/ IsArray(queryParamsObject)
  THEN Invalid(Err("TypeError", <<"queryParamsObject must be an object">>))
  ELSE LET o == queryParamsObject.o
           k == FirstBadEntry(o, TRUE)
       IN IF k = 0 THEN Valid
          ELSE IF Trim(o[k].key) = <<>>
          THEN Invalid(Err("Error", <<"queryParamsObject keys cannot be empty">>))
          ELSE Invalid(Err("TypeError",
                 <<"queryParamsObject value for key \"">> \o o[k].key
                   \o <<"\" must be a string">>))

\* validateInputs of src/src/index.ts
validateInputs(baseUrl, queryParamsObject) ==
  IF TypeOf(baseUrl) # "string"
  THEN Invalid(Err("TypeError", <<"baseUrl must be a string">>))
  ELSE IF Trim(baseUrl.s) = <<>>
  THEN Invalid(Err("Error", <<"baseUrl cannot be empty">>))
  ELSE IF ~ParseURL(baseUrl.s, origin).ok
  THEN Invalid(Err("Error", <<"baseUrl must be a valid URL">>))
  ELSE IF ~protocolAllowed(ParseURL(baseUrl.s, origin).protocol)
  THEN Invalid(Err("Error", <<"baseUrl must use http: or https: protocol">>))
  ELSE IF queryParamsObject.t \in {"null", "undefined"}
  THEN Invalid(Err("TypeError", <<"queryParamsObject must be an object">>))
  ELSE IF TypeOf(queryParamsObject) # "object" \/ IsArray(queryParamsObject)
  THEN Invalid(Err("TypeError", <<"queryParamsObject must be a plain object">>))
  ELSE LET o == queryParamsObject.o
           k == FirstBadEntry(o, TRUE)
       IN IF k = 0 THEN Valid
          ELSE IF Trim(o[k].key) = <<>>
          THEN Invalid(Err("Error", <<"queryParamsObject keys cannot be empty">>))
          ELSE Invalid(Err("TypeError",
                 <<"queryParamsObject value for key \"">> \o o[k].key
                   \o <<"\" must be a string">>))

\* The inline validation of asyncScriptLoader in src/unnamed/part_000; name
\* is the parameter's name in the messages.
validatePart000(baseUrl, queryParamObject, name, parse) ==
  IF TypeOf(baseUrl) # "string"
  THEN Invalid(Err("TypeError", <<"baseUrl must be a string">>))
  ELSE IF Trim(baseUrl.s) = <<>>
  THEN Invalid(Err("Error", <<"baseUrl cannot be empty">>))
  ELSE IF /\ parse
          /\ \/ StartsWith(baseUrl.s, <<"h", "t", "t", "p">>)
             \/ StartsWith(baseUrl.s, <<"h", "t", "t", "p", "s">>)
          /\ ~ParseURL(baseUrl.s, NoBase).ok
  THEN Invalid(Err("Error", <<"baseUrl must be a valid URL">>))
  ELSE IF queryParamObject.t \in {"null", "undefined"}
  THEN Invalid(Err("TypeError", <<name, " must be an object">>))
  ELSE IF TypeOf(queryParamObject) # "object" \/ IsArray(queryParamObject)
  THEN Invalid(Err("TypeError", <<name, " must be a plain object">>))
  ELSE LET o == queryParamObject.o
           k == FirstBadEntry(o, FALSE)
       IN IF k = 0 THEN Valid
          ELSE Invalid(Err("TypeError",
                 <<name, " value for key \"">> \o o[k].key
                   \o <<"\" must be a string">>))

\* -------------------------------------------------------------------------
\* generateUrl
\* -------------------------------------------------------------------------

Returned(url) == [threw |-> FALSE, url |-> url, error |-> NoError]
Threw(e) == [threw |-> TRUE, url |-> <<>>, error |-> e]

\* The reduce with firstSeparator before every pair.
RECURSIVE ReduceOneSeparator(_, _, _, _)
ReduceOneSeparator(acc, o, index, firstSeparator) ==
  IF index > Len(o) THEN Returned(acc)
  ELSE LET encodedKey == encodeURIComponent(o[index].key)
           encodedValue == encodeURIComponent(o[index].value.s)
       IN IF ~encodedKey.ok \/ ~encodedValue.ok THEN Threw(URIErr)
          ELSE ReduceOneSeparator(
                 acc \o firstSeparator \o encodedKey.s \o <<"=">> \o encodedValue.s,
                 o, index + 1, firstSeparator)

\* keys.reduce(...): the accumulator after the entries from index on.
RECURSIVE Reduce(_, _, _, _)
Reduce(acc, o, index, firstSeparator) ==
  IF index > Len(o) THEN Returned(acc)
  ELSE LET encodedKey == encodeURIComponent(o[index].key)
           encodedValue == encodeURIComponent(o[index].value.s)
           separator == IF index = 1 THEN firstSeparator ELSE <<"&">>
       IN IF ~encodedKey.ok \/ ~encodedValue.ok THEN Threw(URIErr)
          ELSE Reduce(acc \o separator \o encodedKey.s \o <<"=">> \o encodedValue.s,
                      o, index + 1, firstSeparator)

\* appendQuery building on baseUrl.trim() instead of baseUrl.
appendQueryTrimmed(baseUrl, queryParamsObject) ==
  LET keys == queryParamsObject.o
      trimmed == Trim(baseUrl.s)
  IN IF Len(keys) = 0 THEN Returned(trimmed)
     ELSE LET firstSeparator == IF Includes(trimmed, "?") THEN <<"&">> ELSE <<"?">>
              queryString == Reduce(<<>>, keys, 1, firstSeparator)
          IN IF queryString.threw THEN queryString
             ELSE Returned(trimmed \o queryString.url)

\* The body of generateUrl after its validation, the same in both versions.
appendQuery(baseUrl, queryParamsObject) ==
  LET keys == queryParamsObject.o
  IN IF Len(keys) = 0 THEN Returned(baseUrl.s)
     ELSE LET firstSeparator == IF Includes(baseUrl.s, "?") THEN <<"&">> ELSE <<"?">>
              queryString == Reduce(<<>>, keys, 1, firstSeparator)
          IN IF queryString.threw THEN queryString
             ELSE Returned(baseUrl.s \o queryString.url)

\* generateUrl of src/src/index.ts
generateUrl(baseUrl, queryParamsObject) ==
  LET validation == validateInputs(baseUrl, queryParamsObject)
  IN IF ~validation.valid THEN Threw(validation.error)
     ELSE appendQuery(baseUrl, queryParamsObject)

\* generateUrl of src/unnamed/part_000
generateUrlPart000(baseUrl, queryParamsObject) ==
  LET validation == validatePart000(baseUrl, queryParamsObject, "queryParamsObject", FALSE)
  IN IF ~validation.valid THEN Threw(validation.error)
     ELSE appendQuery(baseUrl, queryParamsObject)

\* -------------------------------------------------------------------------
\* One invocation: the returned promise, the script element, the timer and
\* the two listeners
\* -------------------------------------------------------------------------

NotCalled ==
  [result |-> "none",        \* "none", "promise" (returned) or "thrown"
   thrown |-> NoError,       \* the exception of a synchronous throw
   state |-> "none",         \* of the promise: "pending", "fulfilled", "rejected"
   reason |-> NoError,       \* the rejection's error
   baseUrl |-> JSUndefined,  \* the arguments
   params |-> JSUndefined,
   created |-> FALSE,        \* document.createElement('script') was called
   src |-> <<>>,             \* scriptElement.src
   async |-> FALSE,          \* scriptElement.async
   inserted |-> FALSE,       \* insertAdjacentElement was called
   attached |-> FALSE,       \* scriptElement.parentNode is the head
   armed |-> FALSE,          \* setTimeout was called
   timerPending |-> FALSE,   \* the timer is set and neither fired nor cleared
   onLoadReg |-> FALSE,      \* onLoad is a listener of 'load'
   onErrorReg |-> FALSE,     \* onError is a listener of 'error'
   elapsed |-> FALSE,        \* timeoutDuration ms have passed since the call
   loadSeen |-> FALSE,       \* a 'load' event was dispatched at the element
   errorSeen |-> FALSE,      \* an 'error' event was dispatched at the element
   first |-> "none",         \* the first of "load", "error", "timer" to happen
   handlerRuns |-> 0,        \* runs of onLoad, onError and the timer callback
   removals |-> 0,           \* removeChild calls made by cleanup
   hostDetached |-> FALSE]   \* the page's own code has detached the element

\* Promise.reject(e), returned
rejected(c, e) == [c EXCEPT !.result = "promise", !.state = "rejected", !.reason = e]
\* an exception leaving asyncScriptLoader
throws(c, e) == [c EXCEPT !.result = "thrown", !.thrown = e]

\* resolve() and reject(e) of the promise's executor: no-ops once settled.
resolve(c) == IF c.state = "pending" THEN [c EXCEPT !.state = "fulfilled"] ELSE c
reject(c, e) ==
  IF c.state = "pending" THEN [c EXCEPT !.state = "rejected", !.reason = e] ELSE c

\* cleanup without its two removeEventListener calls.
cleanupKeepsListeners(c, removeElement) ==
  [c EXCEPT !.timerPending = FALSE,
            !.attached = IF removeElement /\ c.attached THEN FALSE ELSE c.attached,
            !.removals = IF removeElement /\ c.attached THEN c.removals + 1
                         ELSE c.removals]

\* cleanup without its clearTimeout.
cleanupKeepsTimer(c, removeElement) ==
  [c EXCEPT !.onLoadReg = FALSE,
            !.onErrorReg = FALSE,
            !.attached = IF removeElement /\ c.attached THEN FALSE ELSE c.attached,
            !.removals = IF removeElement /\ c.attached THEN c.removals + 1
                         ELSE c.removals]

\* cleanup that removes onLoad twice and onError never.
cleanupKeepsErrorListener(c, removeElement) ==
  [c EXCEPT !.timerPending = FALSE,
            !.onLoadReg = FALSE,
            !.attached = IF removeElement /\ c.attached THEN FALSE ELSE c.attached,
            !.removals = IF removeElement /\ c.attached THEN c.removals + 1
                         ELSE c.removals]

\* cleanup calling removeChild without looking at scriptElement.parentNode.
cleanupNoParentCheck(c, removeElement) ==
  [c EXCEPT !.timerPending = FALSE,
            !.onLoadReg = FALSE,
            !.onErrorReg = FALSE,
            !.attached = IF removeElement THEN FALSE ELSE c.attached,
            !.removals = IF removeElement THEN c.removals + 1 ELSE c.removals]

cleanup(c, removeElement) ==
  [c EXCEPT !.timerPending = FALSE,
            !.onLoadReg = FALSE,
            !.onErrorReg = FALSE,
            !.attached = IF removeElement /\ c.attached THEN FALSE ELSE c.attached,
            !.removals = IF removeElement /\ c.attached THEN c.removals + 1
                         ELSE c.removals]

ran(c) == [c EXCEPT !.handlerRuns = c.handlerRuns + 1]

\* A timer callback that cleans up and forgets to reject.
timeoutCallbackNoReject(c) == cleanup(ran(c), TRUE)

\* the callback given to setTimeout
timeoutCallback(c) == reject(cleanup(ran(c), TRUE), TimeoutErr(c.src))

onLoad(c) == resolve(cleanup(ran(c), FALSE))

\* onError with the timer callback's message.
onErrorTimeoutMessage(c) == reject(cleanup(ran(c), TRUE), TimeoutErr(c.src))

\* onError calling cleanup() as onLoad does.
onErrorKeepsElement(c) == reject(cleanup(ran(c), FALSE), LoadErr(c.src))

onError(c) == reject(cleanup(ran(c), TRUE), LoadErr(c.src))

\* loadElement arming the timer before it looks for the head.
loadElementArmsFirst(c, constructedUrl) ==
  LET element == [c EXCEPT !.created = TRUE, !.src = constructedUrl, !.async = TRUE,
                           !.armed = TRUE, !.timerPending = TRUE]
  IN IF ~hasHead THEN rejected(element, NoHeadErr)
     ELSE [element EXCEPT !.inserted = TRUE, !.attached = TRUE,
                          !.result = "promise", !.state = "pending",
                          !.onLoadReg = TRUE, !.onErrorReg = TRUE]

\* loadElement returning before it registers the 'error' listener.
loadElementNoErrorListener(c, constructedUrl) ==
  LET element == [c EXCEPT !.created = TRUE, !.src = constructedUrl, !.async = TRUE]
  IN IF ~hasHead THEN rejected(element, NoHeadErr)
     ELSE [element EXCEPT !.inserted = TRUE, !.attached = TRUE,
                          !.result = "promise", !.state = "pending",
                          !.armed = TRUE, !.timerPending = TRUE,
                          !.onLoadReg = TRUE]

\* From the creation of the script element to the return of the promise,
\* the same in both versions.
loadElement(c, constructedUrl) ==
  LET element == [c EXCEPT !.created = TRUE, !.src = constructedUrl, !.async = TRUE]
  IN IF ~hasHead THEN rejected(element, NoHeadErr)
     ELSE [element EXCEPT !.inserted = TRUE, !.attached = TRUE,
                          !.result = "promise", !.state = "pending",
                          !.armed = TRUE, !.timerPending = TRUE,
                          !.onLoadReg = TRUE, !.onErrorReg = TRUE]

\* asyncScriptLoader of src/src/index.ts, on a fresh invocation record
loaderIndex(c, baseUrl, queryParamObject) ==
  IF ~hasWindow THEN rejected(c, EnvironmentErr)
  ELSE LET validation == validateInputs(baseUrl, queryParamObject)
       IN IF ~validation.valid THEN rejected(c, validation.error)
          ELSE LET constructedUrl == generateUrl(baseUrl, queryParamObject)
               IN IF constructedUrl.threw THEN throws(c, constructedUrl.error)
                  ELSE loadElement(c, constructedUrl.url)

\* asyncScriptLoader of src/unnamed/part_000
loaderPart000(c, baseUrl, queryParamObject) ==
  LET validation == validatePart000(baseUrl, queryParamObject, "queryParamObject", TRUE)
  IN IF ~validation.valid THEN rejected(c, validation.error)
     ELSE LET constructedUrl == generateUrlPart000(baseUrl, queryParamObject)
          IN IF constructedUrl.threw THEN throws(c, constructedUrl.error)
             ELSE IF ~hasWindow THEN throws(c, DocumentReferenceErr)
             ELSE loadElement(c, constructedUrl.url)

\* -------------------------------------------------------------------------
\* Inputs
\* -------------------------------------------------------------------------

MaxCalls == 1

Https == <<"h", "t", "t", "p", "s", ":", "/", "/", "a", "/", "w">>
Javascript == <<"j", "a", "v", "a", "s", "c", "r", "i", "p", "t", ":", "x">>
File == <<"f", "i", "l", "e", ":", "/", "/", "/", "x">>
NoHost == <<"h", "t", "t", "p", ":", "/", "/">>
Relative == <<"/", "w", "?", "x">>

BaseUrls ==
  {JSNumber, JSString(<<>>), JSString(<<" ">>), JSString(Https),
   JSString(Javascript), JSString(File), JSString(NoHost), JSString(Relative)}

ParamObjects ==
  {JSNull, JSUndefined, JSArray, JSNumber,
   JSObject(<<>>),
   JSObject(<<Entry(<<"v">>, JSString(<<"2">>))>>),
   JSObject(<<Entry(<<>>, JSString(<<"x">>))>>),
   JSObject(<<Entry(<<" ">>, JSString(<<"x">>))>>),
   JSObject(<<Entry(<<"k">>, JSNumber)>>),
   JSObject(<<Entry(<<"a", " ", "b">>, JSString(<<"&", "=">>))>>),
   JSObject(<<Entry(<<"a">>, JSString(<<"1">>)), Entry(<<"b">>, JSString(<<"?">>))>>),
   JSObject(<<Entry(<<"k">>, JSString(<<LoneSurrogate>>))>>)}

\* -------------------------------------------------------------------------
\* The state machine
\* -------------------------------------------------------------------------

Init ==
  /\ impl \in {"index", "part000"}
  /\ hasWindow \in BOOLEAN
  /\ hasHead \in BOOLEAN
  /\ origin \in Origins
  \* without a window there is no document and no location
  /\ ~hasWindow => (~hasHead /\ origin = OpaqueOrigin)
  /\ calls = [i \in 1..MaxCalls |-> NotCalled]

\* The first event of an invocation, once one has happened.
noteFirst(c, event) == IF c.first = "none" THEN [c EXCEPT !.first = event] ELSE c

\* A call of asyncScriptLoader(baseUrl, queryParamObject): the i-th one.
asyncScriptLoader(i, baseUrl, queryParamObject) ==
  /\ calls[i].result = "none"
  /\ i > 1 => calls[i - 1].result # "none"
  /\ LET c == [calls[i] EXCEPT !.baseUrl = baseUrl, !.params = queryParamObject]
     IN calls' = [calls EXCEPT ![i] =
                    IF impl = "index"
                    THEN loaderIndex(c, baseUrl, queryParamObject)
                    ELSE loaderPart000(c, baseUrl, queryParamObject)]
  /\ UNCHANGED <<impl, hasWindow, hasHead, origin>>

\* The one 'load' event of the i-th call's script element is dispatched.
LoadEvent(i) ==
  /\ calls[i].inserted
  /\ ~calls[i].loadSeen
  /\ LET c == noteFirst([calls[i] EXCEPT !.loadSeen = TRUE], "load")
     IN calls' = [calls EXCEPT ![i] = IF c.onLoadReg THEN onLoad(c) ELSE c]
  /\ UNCHANGED <<impl, hasWindow, hasHead, origin>>

\* ErrorEvent as it would be with scriptElement and timeout kept in variables
\* of the module, shared by all calls: onError cleans up the element and the
\* timer of the latest call.
ErrorEventSharedElement(i) ==
  /\ calls[i].inserted
  /\ ~calls[i].errorSeen
  /\ LET c == noteFirst([calls[i] EXCEPT !.errorSeen = TRUE], "error")
         latest == CHOOSE j \in DOMAIN calls :
                     /\ calls[j].result # "none"
                     /\ \A k \in DOMAIN calls : calls[k].result # "none" => k <= j
         own == [calls EXCEPT ![i] =
                   IF c.onErrorReg THEN reject(ran(c), LoadErr(c.src)) ELSE c]
     IN calls' = IF c.onErrorReg
                 THEN [own EXCEPT ![latest] = cleanup(own[latest], TRUE)]
                 ELSE own
  /\ UNCHANGED <<impl, hasWindow, hasHead, origin>>

\* The one 'error' event of the i-th call's script element is dispatched.
ErrorEvent(i) ==
  /\ calls[i].inserted
  /\ ~calls[i].errorSeen
  /\ LET c == noteFirst([calls[i] EXCEPT !.errorSeen = TRUE], "error")
     IN calls' = [calls EXCEPT ![i] = IF c.onErrorReg THEN onError(c) ELSE c]
  /\ UNCHANGED <<impl, hasWindow, hasHead, origin>>

\* timeoutDuration ms have passed since the i-th call armed its timer: the
\* callback runs when the timer is still pending.
TimerElapses(i) ==
  /\ calls[i].armed
  /\ ~calls[i].elapsed
  /\ LET c == noteFirst([calls[i] EXCEPT !.elapsed = TRUE], "timer")
     IN calls' = [calls EXCEPT ![i] =
                    IF c.timerPending THEN timeoutCallback(c) ELSE c]
  /\ UNCHANGED <<impl, hasWindow, hasHead, origin>>

Call ==
  \E i \in DOMAIN calls, baseUrl \in BaseUrls, queryParamObject \in ParamObjects :
    asyncScriptLoader(i, baseUrl, queryParamObject)
Load == \E i \in DOMAIN calls : LoadEvent(i)
Error == \E i \in DOMAIN calls : ErrorEvent(i)
Timer == \E i \in DOMAIN calls : TimerElapses(i)

Next == Call \/ Load \/ Error \/ Timer

Spec == Init /\ [][Next]_vars

\* The event loop runs every timer that is due.
FairSpec == Spec /\ WF_vars(Timer)

\* -------------------------------------------------------------------------
\* Concurrent invocations: several calls before any has settled, over a
\* small set of arguments (the same URL twice included)
\* -------------------------------------------------------------------------

MaxConcurrent == 2

ConcurrentBaseUrls == {JSString(<<>>), JSString(Https)}
ConcurrentParams ==
  {JSObject(<<>>), JSObject(<<Entry(<<"v">>, JSString(<<"2">>))>>)}

InitConcurrent ==
  /\ impl \in {"index", "part000"}
  /\ hasWindow \in BOOLEAN
  /\ hasHead \in BOOLEAN
  /\ origin \in Origins
  /\ ~hasWindow => (~hasHead /\ origin = OpaqueOrigin)
  /\ calls = [i \in 1..MaxConcurrent |-> NotCalled]

CallConcurrent ==
  \E i \in DOMAIN calls, baseUrl \in ConcurrentBaseUrls,
     queryParamObject \in ConcurrentParams :
    asyncScriptLoader(i, baseUrl, queryParamObject)

NextConcurrent == CallConcurrent \/ Load \/ Error \/ Timer

ConcurrentSpec == InitConcurrent /\ [][NextConcurrent]_vars

\* -------------------------------------------------------------------------
\* URL building: one invocation in a browser page, over base URLs with and
\* without a query and padding, and parameters with reserved characters
\* -------------------------------------------------------------------------

Padded == <<" ">> \o Https \o <<" ">>
WithQuery == Https \o <<"?", "x", "=", "1">>
QuestionMarkLast == Https \o <<"?">>

UrlBaseUrls ==
  {JSString(<<>>), JSString(Https), JSString(Padded), JSString(WithQuery),
   JSString(QuestionMarkLast), JSString(Relative)}

UrlParams ==
  {JSObject(<<>>),
   JSObject(<<Entry(<<"v">>, JSString(<<"2">>))>>),
   JSObject(<<Entry(<<"k">>, JSString(<<>>))>>),
   JSObject(<<Entry(<<>>, JSString(<<"x">>))>>),
   JSObject(<<Entry(<<"a", " ", "b">>, JSString(<<"&", "=">>))>>),
   JSObject(<<Entry(<<"b">>, JSString(<<"1">>)), Entry(<<"a">>, JSString(<<"?">>))>>),
   JSObject(<<Entry(<<"=">>, JSString(<<"&", "a", "=", "b">>)),
              Entry(<<"?", "#">>, JSString(<<" ", "+", "%", "2", "0">>)),
              Entry(<<"U+E9">>, JSString(<<"/", ":", "~">>))>>),
   JSObject(<<Entry(<<"k">>, JSString(<<LoneSurrogate>>))>>)}

InitUrl ==
  /\ impl \in {"index", "part000"}
  /\ hasWindow = TRUE
  /\ hasHead \in BOOLEAN
  /\ origin = HttpsOrigin
  /\ calls = <<NotCalled>>

CallUrl ==
  \E i \in DOMAIN calls, baseUrl \in UrlBaseUrls, queryParamObject \in UrlParams :
    asyncScriptLoader(i, baseUrl, queryParamObject)

NextUrl == CallUrl \/ Load \/ Error \/ Timer

UrlSpec == InitUrl /\ [][NextUrl]_vars

\* -------------------------------------------------------------------------
\* A page whose own code detaches script elements from the document
\* -------------------------------------------------------------------------

\* The page removes the i-th call's element from its parent; load and error
\* events are still dispatched at the detached element.
HostDetaches(i) ==
  /\ calls[i].attached
  /\ calls' = [calls EXCEPT ![i] = [@ EXCEPT !.attached = FALSE,
                                             !.hostDetached = TRUE]]
  /\ UNCHANGED <<impl, hasWindow, hasHead, origin>>

Detach == \E i \in DOMAIN calls : HostDetaches(i)

NextHost == CallConcurrent \/ Load \/ Error \/ Timer \/ Detach

HostSpec == InitConcurrent /\ [][NextHost]_vars

\* -------------------------------------------------------------------------
\* Vocabulary of the properties
\* -------------------------------------------------------------------------

Invocations == {i \in DOMAIN calls : calls[i].result # "none"}

\* The first element of an error's message, "" for no error.
MsgHead(e) == IF e.message = <<>> THEN "" ELSE e.message[1]

Settled(c) == c.state \in {"fulfilled", "rejected"}

AllWhiteSpace(s) == \A k \in 1..Len(s) : s[k] \in {" ", "\t", "\n"}

\* The rejection cases of the validation, stated on the arguments.
NonStringBaseUrl(b) == b.t # "string"
EmptyBaseUrl(b) == b.t = "string" /\ AllWhiteSpace(b.s)
UnparseableBaseUrl(b) ==
  b.t = "string" /\ ~AllWhiteSpace(b.s) /\ ~ParseURL(b.s, origin).ok
DisallowedScheme(b) ==
  /\ b.t = "string" /\ ~AllWhiteSpace(b.s) /\ ParseURL(b.s, origin).ok
  /\ ParseURL(b.s, origin).protocol
       \notin {<<"h", "t", "t", "p", ":">>, <<"h", "t", "t", "p", "s", ":">>}
InvalidBaseUrl(b) ==
  NonStringBaseUrl(b) \/ EmptyBaseUrl(b) \/ UnparseableBaseUrl(b) \/ DisallowedScheme(b)
NotPlainObject(q) == q.t # "object"
NonStringValue(q) == q.t = "object" /\ \E k \in 1..Len(q.o) : q.o[k].value.t # "string"
EmptyKey(q) == q.t = "object" /\ \E k \in 1..Len(q.o) : AllWhiteSpace(q.o[k].key)
InvalidParams(q) == NotPlainObject(q) \/ NonStringValue(q) \/ EmptyKey(q)

ValidationMessageHeads ==
  {"baseUrl must be a string", "baseUrl cannot be empty", "baseUrl must be a valid URL",
   "baseUrl must use http: or https: protocol",
   "queryParamsObject must be an object", "queryParamsObject must be a plain object",
   "queryParamsObject keys cannot be empty", "queryParamsObject value for key \"",
   "queryParamObject"}
IsValidationError(e) ==
  e.name \in {"Error", "TypeError"} /\ MsgHead(e) \in ValidationMessageHeads

\* No trace of the invocation in the document, the timers or the listeners.
NoDomEffects(c) ==
  /\ ~c.created /\ c.src = <<>> /\ ~c.inserted /\ ~c.attached
  /\ ~c.armed /\ ~c.timerPending
  /\ ~c.onLoadReg /\ ~c.onErrorReg /\ c.handlerRuns = 0

\* -------------------------------------------------------------------------
\* Properties
\* -------------------------------------------------------------------------

\* C1: for every invocation that has inserted its script node, the first of
\* the three events decides the outcome: before any event the promise is
\* pending; load first, it is fulfilled; error first, it is rejected with
\* 'Failed to load <url>.'; timer first, it is rejected with 'Script
\* loading timed out after 2000ms: <url>', <url> being the node's source.
C1_FirstEventDecides ==
  \A i \in DOMAIN calls :
    LET c == calls[i]
    IN c.inserted =>
         /\ c.first = "none" => c.state = "pending"
         /\ c.first = "load" => c.state = "fulfilled" /\ c.reason = NoError
         /\ c.first = "error" =>
              /\ c.state = "rejected"
              /\ c.reason = [name |-> "Error",
                             message |-> <<"Failed to load ">> \o c.src \o <<".">>]
         /\ c.first = "timer" =>
              /\ c.state = "rejected"
              /\ c.reason = [name |-> "Error",
                             message |-> <<"Script loading timed out after ",
                                           "2000", "ms: ">> \o c.src]
C1_Witness ==
  \E i \in DOMAIN calls :
    /\ calls[i].first = "error" /\ calls[i].loadSeen /\ calls[i].elapsed
    /\ calls[i].state = "rejected"

\* C2: once an invocation's promise is settled, no later load event, error
\* event or timer expiry runs a handler, changes the promise's state or
\* reason, or changes whether the node is attached.
C2_SettlesOnce ==
  [][\A i \in DOMAIN calls :
       Settled(calls[i]) =>
         /\ calls'[i].state = calls[i].state
         /\ calls'[i].reason = calls[i].reason
         /\ calls'[i].attached = calls[i].attached
         /\ calls'[i].handlerRuns = calls[i].handlerRuns]_vars
C2_Witness ==
  \E i \in DOMAIN calls :
    /\ calls[i].first = "timer" /\ calls[i].loadSeen /\ calls[i].errorSeen
    /\ calls[i].handlerRuns = 1

\* C3: under fairness of the timer every pending invocation eventually
\* settles, and an invocation whose timer has elapsed with no load and no
\* error event delivered is rejected with the timeout error, its node
\* detached.
C3_EventuallySettles ==
  /\ \A i \in 1..MaxCalls :
       (calls[i].state = "pending") ~> Settled(calls[i])
  /\ [](\A i \in 1..MaxCalls :
          (calls[i].elapsed /\ ~calls[i].loadSeen /\ ~calls[i].errorSeen) =>
            /\ calls[i].state = "rejected"
            /\ MsgHead(calls[i].reason) = "Script loading timed out after "
            /\ ~calls[i].attached)
C3_Witness ==
  \E i \in DOMAIN calls :
    /\ calls[i].elapsed /\ ~calls[i].loadSeen /\ ~calls[i].errorSeen
    /\ calls[i].state = "rejected" /\ ~calls[i].attached

\* C4: an invocation rejected with the load error or the timeout error has
\* no node attached to the head.
C4_NoOrphanedNode ==
  \A i \in DOMAIN calls :
    (/\ calls[i].state = "rejected"
     /\ MsgHead(calls[i].reason) \in {"Failed to load ", "Script loading timed out after "})
      => ~calls[i].attached
C4_Witness ==
  \E i \in DOMAIN calls :
    /\ calls[i].state = "rejected" /\ calls[i].inserted
    /\ MsgHead(calls[i].reason) = "Failed to load "
    /\ ~calls[i].attached

\* C5: when the load event fires first the node stays attached, also after
\* a later error event and after the 2000 ms have elapsed.
C5_SuccessKeepsNode ==
  \A i \in DOMAIN calls : calls[i].first = "load" => calls[i].attached
C5_Witness ==
  \E i \in DOMAIN calls :
    /\ calls[i].first = "load" /\ calls[i].errorSeen /\ calls[i].elapsed
    /\ calls[i].attached

\* C6: in every state where an invocation that inserted its node is
\* settled, its timer is not pending and neither listener is registered.
C6_CleanupOnSettlement ==
  \A i \in DOMAIN calls :
    (calls[i].inserted /\ Settled(calls[i])) =>
      /\ ~calls[i].timerPending
      /\ ~calls[i].onLoadReg
      /\ ~calls[i].onErrorReg
C6_Witness ==
  \E i \in DOMAIN calls :
    /\ calls[i].first = "load" /\ calls[i].state = "fulfilled"
    /\ ~calls[i].elapsed /\ ~calls[i].timerPending

\* C7: in src/src/index.ts, with a window, every call whose arguments fall
\* in a rejection case of the validation returns a promise already rejected
\* with a validation error, and leaves no node, no timer and no listener.
C7_ValidationFailureNoDom ==
  \A i \in Invocations :
    (/\ impl = "index" /\ hasWindow
     /\ InvalidBaseUrl(calls[i].baseUrl) \/ InvalidParams(calls[i].params))
      => /\ calls[i].result = "promise"
         /\ calls[i].state = "rejected"
         /\ IsValidationError(calls[i].reason)
         /\ NoDomEffects(calls[i])
C7_Witness ==
  \E i \in Invocations :
    /\ impl = "index" /\ hasWindow
    /\ ~InvalidBaseUrl(calls[i].baseUrl) /\ EmptyKey(calls[i].params)
    /\ MsgHead(calls[i].reason) = "queryParamsObject keys cannot be empty"

\* C8 as stated: with a window and no head, a call that passes validation
\* is rejected with 'No <head> element found in document' and no script
\* node has been created, no timer armed, no listener registered.
C8_NoHeadNoNode ==
  \A i \in Invocations :
    (/\ hasWindow /\ ~hasHead
     /\ calls[i].result = "promise" /\ ~IsValidationError(calls[i].reason))
      => /\ calls[i].state = "rejected"
         /\ calls[i].reason = [name |-> "Error",
                               message |-> <<"No <head> element found in document">>]
         /\ ~calls[i].created
         /\ ~calls[i].armed /\ ~calls[i].onLoadReg /\ ~calls[i].onErrorReg

\* C8 amended: with a window and no head, a call that passes validation is
\* rejected with 'No <head> element found in document'; the script element
\* has been created and given its source, but is never inserted, no timer
\* is armed and no listener registered.
C8_NoHeadNoInsertion ==
  \A i \in Invocations :
    (/\ hasWindow /\ ~hasHead
     /\ calls[i].result = "promise" /\ ~IsValidationError(calls[i].reason))
      => /\ calls[i].state = "rejected"
         /\ calls[i].reason = [name |-> "Error",
                               message |-> <<"No <head> element found in document">>]
         /\ calls[i].created /\ calls[i].src # <<>> /\ calls[i].async
         /\ ~calls[i].inserted /\ ~calls[i].attached
         /\ ~calls[i].armed /\ ~calls[i].timerPending
         /\ ~calls[i].onLoadReg /\ ~calls[i].onErrorReg
         /\ calls[i].handlerRuns = 0
C8_Witness ==
  \E i \in Invocations :
    /\ hasWindow /\ ~hasHead
    /\ MsgHead(calls[i].reason) = "No <head> element found in document"
    /\ calls[i].created /\ ~calls[i].inserted

\* C9: without a window, every call, whatever its arguments, returns a
\* promise already rejected with the environment error, touches no DOM and
\* does not throw.
C9_EnvironmentError ==
  \A i \in Invocations :
    ~hasWindow =>
      /\ calls[i].result = "promise"
      /\ calls[i].state = "rejected"
      /\ calls[i].reason =
           [name |-> "Error",
            message |-> <<"asyncScriptLoader requires a browser environment">>]
      /\ NoDomEffects(calls[i])

\* C10: every script node the loader has created has a source whose scheme,
\* resolved against the page, is http or https.
C10_OnlyHttpNodes ==
  \A i \in Invocations :
    calls[i].created =>
      /\ ParseURL(calls[i].src, origin).ok
      /\ ParseURL(calls[i].src, origin).protocol
           \in {<<"h", "t", "t", "p", ":">>, <<"h", "t", "t", "p", "s", ":">>}

\* C11: concurrent invocations are independent: every step changes the
\* record (promise, node, timer, listeners) of at most one invocation, and
\* in every reachable state the invocations whose node is attached are
\* exactly those that inserted a node and are pending or fulfilled.
C11_Independent ==
  /\ [][\A i, j \in DOMAIN calls :
          (i # j /\ calls'[i] # calls[i]) => calls'[j] = calls[j]]_vars
  /\ [](\A i \in 1..MaxConcurrent :
          calls[i].attached <=>
            (calls[i].inserted /\ calls[i].state \in {"pending", "fulfilled"}))
C11_Witness ==
  \E i, j \in DOMAIN calls :
    /\ i # j
    /\ calls[i].src = calls[j].src /\ calls[i].created /\ calls[j].created
    /\ calls[i].state = "rejected" /\ calls[i].first = "error" /\ ~calls[i].attached
    /\ calls[j].state = "pending" /\ calls[j].attached
    /\ calls[j].timerPending /\ calls[j].onLoadReg /\ calls[j].onErrorReg

\* C12: every error is delivered as a rejection of the returned promise:
\* asyncScriptLoader (index.ts) never throws synchronously.
C12_NeverThrows ==
  \A i \in Invocations :
    impl = "index" => (calls[i].result = "promise" /\ calls[i].thrown = NoError)

\* The rejection cases of the validation that apply to a pair of arguments.
RejectionCases(b, q) ==
  {x \in {"nonStringBaseUrl", "emptyBaseUrl", "disallowedScheme", "nullParams",
          "arrayParams", "nonStringValue", "emptyKey"} :
     \/ x = "nonStringBaseUrl" /\ NonStringBaseUrl(b)
     \/ x = "emptyBaseUrl" /\ EmptyBaseUrl(b)
     \/ x = "disallowedScheme" /\ DisallowedScheme(b)
     \/ x = "nullParams" /\ q.t \in {"null", "undefined"}
     \/ x = "arrayParams" /\ IsArray(q)
     \/ x = "nonStringValue" /\ NonStringValue(q)
     \/ x = "emptyKey" /\ EmptyKey(q)}
TypeMismatchCases ==
  {"nonStringBaseUrl", "nullParams", "arrayParams", "nonStringValue"}

\* The rejection case an error's kind (type and message) stands for.
CaseOfKind(e) ==
  LET kind == <<e.name, MsgHead(e)>>
  IN CASE kind = <<"TypeError", "baseUrl must be a string">> -> "nonStringBaseUrl"
       [] kind = <<"Error", "baseUrl cannot be empty">> -> "emptyBaseUrl"
       [] kind = <<"Error", "baseUrl must use http: or https: protocol">> ->
            "disallowedScheme"
       [] kind = <<"TypeError", "queryParamsObject must be an object">> -> "nullParams"
       [] kind = <<"TypeError", "queryParamsObject must be a plain object">> ->
            "arrayParams"
       [] kind = <<"TypeError", "queryParamsObject value for key \"">> ->
            "nonStringValue"
       [] kind = <<"Error", "queryParamsObject keys cannot be empty">> -> "emptyKey"
       [] OTHER -> "none"

\* C13: the rejection cases of validateInputs (index.ts) are told apart by
\* the error's kind: an invocation to which exactly one of the seven cases
\* applies (and whose arguments are otherwise valid) is rejected with an
\* error whose type and message identify that case and no other, a
\* TypeError for the type mismatches and a plain Error for the rest.
C13_CasesDistinguishable ==
  \A i \in Invocations :
    LET c == calls[i]
        cases == RejectionCases(c.baseUrl, c.params)
    IN (/\ impl = "index" /\ hasWindow
        /\ Cardinality(cases) = 1
        /\ ~UnparseableBaseUrl(c.baseUrl)
        /\ c.params.t \in {"null", "undefined", "object"} \/ IsArray(c.params))
       => /\ c.state = "rejected"
          /\ cases = {CaseOfKind(c.reason)}
          /\ c.reason.name = "TypeError" <=> cases \subseteq TypeMismatchCases
          /\ c.reason.name = "Error" <=> cases \cap TypeMismatchCases = {}
C13_Witness ==
  \E i \in Invocations :
    /\ impl = "index" /\ hasWindow
    /\ RejectionCases(calls[i].baseUrl, calls[i].params) = {"arrayParams"}
    /\ calls[i].state = "rejected"
    /\ calls[i].reason =
         Err("TypeError", <<"queryParamsObject must be a plain object">>)

\* C14: with an empty parameter object a valid baseUrl is returned by
\* generateUrl exactly as given (not trimmed, no separator appended): the
\* invocation creates its node and the node's source is baseUrl.
C14_EmptyParamsKeepBaseUrl ==
  \A i \in Invocations :
    LET c == calls[i]
    IN (hasWindow /\ c.params = JSObject(<<>>) /\ ~InvalidBaseUrl(c.baseUrl))
       => c.result = "promise" /\ c.created /\ c.src = c.baseUrl.s
C14_Witness ==
  \E i \in Invocations :
    /\ calls[i].params = JSObject(<<>>)
    /\ calls[i].baseUrl = JSString(Padded)
    /\ calls[i].created /\ calls[i].src = Padded /\ calls[i].inserted

\* The text appended to the base URL: the node's source after the prefix.
Appended(c) == SubSeq(c.src, Len(c.baseUrl.s) + 1, Len(c.src))

\* The pairs from the k-th on, each as key=value, joined by "&".
RECURSIVE JoinPairs(_, _)
JoinPairs(o, k) ==
  LET pair == encodeURIComponent(o[k].key).s \o <<"=">>
                \o encodeURIComponent(o[k].value.s).s
  IN IF k = Len(o) THEN pair ELSE pair \o <<"&">> \o JoinPairs(o, k + 1)

\* C15: with a non-empty parameter object the node's source is baseUrl,
\* unchanged, followed by one separator ("?" when baseUrl holds no "?",
\* "&" when it does) and the encoded key=value pairs in the object's
\* iteration order, joined by "&".
C15_SeparatorsAndOrder ==
  \A i \in Invocations :
    LET c == calls[i]
        o == c.params.o
    IN (c.created /\ c.params.t = "object" /\ Len(o) > 0)
       => /\ Len(c.src) > Len(c.baseUrl.s)
          /\ SubSeq(c.src, 1, Len(c.baseUrl.s)) = c.baseUrl.s
          /\ Head(Appended(c)) =
               (IF \E k \in 1..Len(c.baseUrl.s) : c.baseUrl.s[k] = "?"
                THEN "&" ELSE "?")
          /\ Tail(Appended(c)) = JoinPairs(o, 1)
C15_Witness ==
  \E i \in Invocations :
    /\ calls[i].created /\ calls[i].baseUrl = JSString(WithQuery)
    /\ Len(calls[i].params.o) = 3
    /\ Head(Appended(calls[i])) = "&"

\* s.split(d) for a one-unit delimiter: acc is the piece being read.
RECURSIVE SplitFrom(_, _, _)
SplitFrom(s, d, acc) ==
  IF s = <<>> THEN <<acc>>
  ELSE IF Head(s) = d THEN <<acc>> \o SplitFrom(Tail(s), d, <<>>)
  ELSE SplitFrom(Tail(s), d, Append(acc, Head(s)))
Split(s, d) == SplitFrom(s, d, <<>>)

\* The code unit a percent-escape %XY stands for; "malformed" otherwise.
Unescape(x, y) ==
  CASE <<x, y>> = <<"2", "0">> -> " "
    [] <<x, y>> = <<"0", "9">> -> "\t"
    [] <<x, y>> = <<"0", "A">> -> "\n"
    [] <<x, y>> = <<"2", "3">> -> "#"
    [] <<x, y>> = <<"2", "5">> -> "%"
    [] <<x, y>> = <<"2", "6">> -> "&"
    [] <<x, y>> = <<"2", "B">> -> "+"
    [] <<x, y>> = <<"2", "F">> -> "/"
    [] <<x, y>> = <<"3", "A">> -> ":"
    [] <<x, y>> = <<"3", "D">> -> "="
    [] <<x, y>> = <<"3", "F">> -> "?"
    [] <<x, y>> = <<"5", "C">> -> "\\"
    [] OTHER -> "malformed"

\* decodeURIComponent(s): every %XY (the two-byte %C3%A9 of e-acute
\* included) gives its code unit, every other unit stands for itself.
RECURSIVE decodeURIComponent(_)
decodeURIComponent(s) ==
  IF s = <<>> THEN <<>>
  ELSE IF Head(s) # "%" THEN <<Head(s)>> \o decodeURIComponent(Tail(s))
  ELSE IF Len(s) >= 6 /\ SubSeq(s, 1, 6) = <<"%", "C", "3", "%", "A", "9">>
  THEN <<"U+E9">> \o decodeURIComponent(SubSeq(s, 7, Len(s)))
  ELSE IF Len(s) >= 3
  THEN <<Unescape(s[2], s[3])>> \o decodeURIComponent(SubSeq(s, 4, Len(s)))
  ELSE <<"malformed">>

\* C16: the appended query decodes to the parameters: the text after the
\* first separator holds no "?", splits on "&" into as many pieces as the
\* object has pairs, each piece splits on "=" into exactly two, and these
\* percent-decode to the k-th key and the k-th value.
C16_EncodingRoundTrip ==
  \A i \in Invocations :
    LET c == calls[i]
        o == c.params.o
        pieces == Split(Tail(Appended(c)), "&")
    IN (c.created /\ c.params.t = "object" /\ Len(o) > 0)
       => /\ \A k \in 2..Len(Appended(c)) : Appended(c)[k] # "?"
          /\ Len(pieces) = Len(o)
          /\ \A k \in 1..Len(o) :
               LET kv == Split(pieces[k], "=")
               IN /\ Len(kv) = 2
                  /\ decodeURIComponent(kv[1]) = o[k].key
                  /\ decodeURIComponent(kv[2]) = o[k].value.s
C16_Witness ==
  \E i \in Invocations :
    /\ calls[i].created
    /\ Len(calls[i].params.o) = 3
    /\ calls[i].params.o[1].value.s = <<"&", "a", "=", "b">>
    /\ calls[i].params.o[2].key = <<"?", "#">>
    /\ Split(Tail(Appended(calls[i])), "&")[1] =
         <<"%", "3", "D", "=", "%", "2", "6", "a", "%", "3", "D", "b">>

\* C17: insertion, arming of the timer and registration of the two
\* listeners are one step: in every reachable state an invocation whose
\* node is attached and whose promise is pending has its timer pending and
\* both its 'load' and its 'error' listener registered, and a node is never
\* inserted without the promise having been returned.
C17_InsertedMeansObserved ==
  \A i \in DOMAIN calls :
    LET c == calls[i]
    IN /\ c.inserted => c.result = "promise" /\ c.armed
       /\ (c.attached /\ c.state = "pending")
            => c.timerPending /\ c.onLoadReg /\ c.onErrorReg
C17_Witness ==
  \E i \in DOMAIN calls :
    /\ calls[i].attached /\ calls[i].state = "pending" /\ calls[i].first = "none"
    /\ calls[i].timerPending /\ calls[i].onLoadReg /\ calls[i].onErrorReg

\* A non-empty string with no scheme: a relative address.
RelativeBaseUrl(b) ==
  b.t = "string" /\ ~AllWhiteSpace(b.s) /\ ~HasScheme(RemoveTabNewline(Trim(b.s)))
BaseUrlMessageHeads ==
  {"baseUrl must be a string", "baseUrl cannot be empty", "baseUrl must be a valid URL",
   "baseUrl must use http: or https: protocol"}

\* C18: a relative baseUrl passes the validation of baseUrl whatever the
\* page's origin is: no invocation made in a browser with a relative
\* baseUrl is rejected, or throws, with an error about baseUrl.
C18_RelativePassesValidation ==
  \A i \in Invocations :
    (hasWindow /\ RelativeBaseUrl(calls[i].baseUrl))
      => /\ MsgHead(calls[i].reason) \notin BaseUrlMessageHeads
         /\ MsgHead(calls[i].thrown) \notin BaseUrlMessageHeads

\* C19: the failure paths tolerate an element the page has detached: when
\* the first event of an invocation is the error event or the timer and the
\* element had no parent by then, cleanup calls no removeChild, the handler
\* runs to its end, the promise is rejected with the error of that event,
\* the timer is cleared and both listeners are removed.
C19_DetachedNodeTolerated ==
  \A i \in DOMAIN calls :
    LET c == calls[i]
    IN (c.hostDetached /\ c.first \in {"error", "timer"})
       => /\ c.removals = 0 /\ ~c.attached
          /\ c.result = "promise" /\ c.thrown = NoError /\ c.handlerRuns = 1
          /\ c.state = "rejected"
          /\ c.reason = (IF c.first = "error" THEN LoadErr(c.src) ELSE TimeoutErr(c.src))
          /\ ~c.timerPending /\ ~c.onLoadReg /\ ~c.onErrorReg
C19_Witness ==
  \E i \in DOMAIN calls :
    /\ calls[i].hostDetached /\ calls[i].first = "timer"
    /\ calls[i].state = "rejected" /\ calls[i].reason = TimeoutErr(calls[i].src)
    /\ calls[i].removals = 0

====
